---- MODULE Spec2Model ----
(***************************************************************************)
(* A model of pdrfit.py: PDRGrid.lines, PDRModel.model, PDRModel.lnprob    *)
(* and read_kauffman.                                                      *)
(*                                                                         *)
(* Numbers.  A float is modelled as a pair <<num, den>> in lowest terms    *)
(* with den >= 0.  den = 0 encodes the IEEE special values numpy produces: *)
(* <<1,0>> is +inf, <<-1,0>> is -inf and <<0,0>> is nan.  Rounding and     *)
(* overflow are not modelled.                                              *)
(*                                                                         *)
(* Units.  The irrational conversion constants of the code are carried as  *)
(* units: a modelled Gstar g stands for g*sqrt(2), a modelled FIR f for    *)
(* f*GtoI and a modelled line intensity x for x*1e-3/(2*pi).  Observed     *)
(* values and uncertainties are given in the same units, so the quotients  *)
(* of lnprob are the quotients of the coefficients.                        *)
(***************************************************************************)
EXTENDS Integers, Sequences, FiniteSets, TLC

VARIABLES heap, selfattr, call, rk

vars == <<heap, selfattr, call, rk>>

-----------------------------------------------------------------------------
(* Bounds of the model *)

\* largest log-density coordinate of the model table's lattice
MaxN == 1
\* most query points (model instances) in one call
MaxQueries == 2
\* most lines of a file read by read_kauffman
MaxFileLen == 3

(* Program constants *)

\* names = ['CII158','OI63', 'OI145']
NLines == 3

-----------------------------------------------------------------------------
(* numpy float arithmetic *)

Abs(x) == IF x < 0 THEN -x ELSE x

Sign(x) == IF x > 0 THEN 1 ELSE IF x < 0 THEN -1 ELSE 0

RECURSIVE GCD(_, _)
GCD(a, b) == IF b = 0 THEN a ELSE GCD(b, a % b)

\* a / b in lowest terms, g the greatest common divisor and sgn the sign of b
Reduce(a, b, g, sgn) == <<(sgn * a) \div g, (sgn * b) \div g>>

Norm(a, b) ==
    IF b = 0 THEN <<Sign(a), 0>>
    ELSE Reduce(a, b, GCD(Abs(a), Abs(b)), Sign(b))

F(k) == <<k, 1>>
NaN == <<0, 0>>
IsFinite(x) == x[2] # 0

FMul(x, y) == Norm(x[1] * y[1], x[2] * y[2])

\* x / y: the sign of the divisor is moved to the numerator first, so that an
\* infinite x keeps the IEEE sign of the quotient (inf / -2 = -inf); the only
\* zero is +0
FDiv(x, y) ==
    IF y[1] < 0
    THEN Norm(-(x[1] * y[2]), x[2] * (-y[1]))
    ELSE Norm(x[1] * y[2], x[2] * y[1])

FAdd(x, y) ==
    IF x[2] = 0 /\ y[2] = 0
    THEN (IF x[1] = y[1] THEN x ELSE NaN)
    ELSE Norm(x[1] * y[2] + y[1] * x[2], x[2] * y[2])

FNeg(x) == <<-x[1], x[2]>>

FSub(x, y) == FAdd(x, FNeg(y))

FSq(x) == FMul(x, x)

\* -0.5 * x
FNegHalf(x) == FMul(<<-1, 2>>, x)

\* x >= 0 for finite x
FGeq0(x) == x[2] # 0 /\ x[1] >= 0

RECURSIVE IntPow10(_)
IntPow10(k) == IF k = 0 THEN 1 ELSE 10 * IntPow10(k - 1)

\* 10**x for an integral x
Pow10(x) == IF x[1] >= 0 THEN <<IntPow10(x[1]), 1>> ELSE <<1, IntPow10(-x[1])>>

RECURSIVE FSum(_)
FSum(s) == IF Len(s) = 0 THEN F(0) ELSE FAdd(FSum(SubSeq(s, 1, Len(s) - 1)), s[Len(s)])

-----------------------------------------------------------------------------
(* The model table: a PDRGrid after load_kauffman *)

\* the radiation-field coordinates (log Go) of the table's lattice
GoAxis == {0, 1}

Lattice == {<<a, b>> : a \in 0..MaxN, b \in GoAxis}

\* file order: the rows are sorted by density index, then by field index
Before(p, q) == p[1] < q[1] \/ (p[1] = q[1] /\ p[2] < q[2])

RECURSIVE SortPoints(_)
SortPoints(S) ==
    IF S = {} THEN <<>>
    ELSE LET m == CHOOSE p \in S : \A q \in S \ {p} : Before(p, q)
         IN  <<m>> \o SortPoints(S \ {m})

\* the density coefficients of the tables' intensities
Coefs == {0, 1}

\* the tables read from the data files: the lattice, or the lattice with one
\* row missing
PointSets == {Lattice} \cup {Lattice \ {h} : h \in Lattice}

\* the stored intensity of line l at the sample p = (n, Go), for the table
\* with density coefficient a
Profile(a, p, l) == a * p[1] + l * p[2] + p[1] * p[2] + (l - 1)

\* n, g, cii = np.loadtxt(files[0], ...); grid.pars['n'] = n; grid.pars['Go'] = g
\* grid.intensity[:,0] = cii; grid.intensity[:,1] = oi63; grid.intensity[:,2] = oi145
load_kauffman(S, a) ==
    LET pts == SortPoints(S)
    IN  [pars      |-> pts,
         intensity |-> [i \in 1..Len(pts) |->
                          [l \in 1..NLines |-> F(Profile(a, pts[i], l))]]]

-----------------------------------------------------------------------------
(* ModelLibrary.model_weights: Delaunay triangulation, point location and *)
(* barycentric weights                                                     *)

PX(p) == F(p[1])
PY(p) == F(p[2])

\* (a - c) x (b - c), for points with float coordinates <<x, y>>
Cross2(a, b, c) ==
    FSub(FMul(FSub(a[1], c[1]), FSub(b[2], c[2])),
         FMul(FSub(b[1], c[1]), FSub(a[2], c[2])))

FPoint(p) == <<PX(p), PY(p)>>

\* twice the signed area of the triangle of three integer points
Orient(a, b, c) == (a[1] - c[1]) * (b[2] - c[2]) - (b[1] - c[1]) * (a[2] - c[2])

SqNorm(p, d) == (p[1] - d[1]) * (p[1] - d[1]) + (p[2] - d[2]) * (p[2] - d[2])

\* d lies strictly inside the circle through a, b and c
InCircle(a, b, c, d) ==
    LET det == (a[1] - d[1]) * ((b[2] - d[2]) * SqNorm(c, d) - (c[2] - d[2]) * SqNorm(b, d))
             - (a[2] - d[2]) * ((b[1] - d[1]) * SqNorm(c, d) - (c[1] - d[1]) * SqNorm(b, d))
             + SqNorm(a, d) * ((b[1] - d[1]) * (c[2] - d[2]) - (c[1] - d[1]) * (b[2] - d[2]))
    IN  det * Orient(a, b, c) > 0

\* the simplices of the Delaunay triangulation of the table's points
Simplices(pars) ==
    {t \in (1..Len(pars)) \X (1..Len(pars)) \X (1..Len(pars)) :
        /\ t[1] < t[2] /\ t[2] < t[3]
        /\ Orient(pars[t[1]], pars[t[2]], pars[t[3]]) # 0
        /\ \A m \in 1..Len(pars) :
              ~InCircle(pars[t[1]], pars[t[2]], pars[t[3]], pars[m])}

\* the last barycentric coordinate is 1 - the sum of the others
LastWeight(wA, wB) == <<wA, wB, FSub(FSub(F(1), wA), wB)>>

\* the barycentric coordinates of the point q in the triangle A, B, C: the
\* first two from the triangle's affine transform
BaryIn(A, B, C, q) ==
    LastWeight(FDiv(Cross2(q, B, C), Cross2(A, B, C)),
               FDiv(Cross2(A, q, C), Cross2(A, B, C)))

barycentric_weights(pars, t, q) ==
    BaryIn(FPoint(pars[t[1]]), FPoint(pars[t[2]]), FPoint(pars[t[3]]), q)

AllGeq0(w) == \A k \in 1..3 : FGeq0(w[k])

Contains(pars, t, q) == AllGeq0(barycentric_weights(pars, t, q))

TripleBefore(t, u) ==
    \/ t[1] < u[1]
    \/ t[1] = u[1] /\ t[2] < u[2]
    \/ t[1] = u[1] /\ t[2] = u[2] /\ t[3] < u[3]

\* the simplex that contains q: the lowest of those that do
locate(E) == CHOOSE t \in E : \A u \in E \ {t} : TripleBefore(t, u)

\* squared distance of the query point q to the sample point p
Dist2(p, q) == FAdd(FSq(FSub(q[1], PX(p))), FSq(FSub(q[2], PY(p))))

FLess(x, y) == LET d == FSub(y, x) IN d[2] # 0 /\ d[1] > 0

\* the nearest sample, the lowest index among equals
nearest(pars, q) ==
    CHOOSE i \in 1..Len(pars) :
        \A j \in 1..Len(pars) :
            /\ ~FLess(Dist2(pars[j], q), Dist2(pars[i], q))
            /\ (j < i => FLess(Dist2(pars[i], q), Dist2(pars[j], q)))

\* the sample indices and the weights of the target point q, E the simplices
\* that contain it; a point outside the hull takes its nearest sample with
\* weight 1
WeightsIn(E, pars, q) ==
    IF E # {}
    THEN [inds |-> locate(E), weights |-> barycentric_weights(pars, locate(E), q)]
    ELSE [inds    |-> [k \in 1..3 |-> nearest(pars, q)],
          weights |-> <<F(1), F(0), F(0)>>]

PointWeights(dtri, pars, q) ==
    WeightsIn({t \in dtri : Contains(pars, t, q)}, pars, q)

\* the rows of indices and the rows of weights of the target points
Rows(pw) ==
    [inds    |-> [k \in 1..Len(pw) |-> pw[k].inds],
     weights |-> [k \in 1..Len(pw) |-> pw[k].weights]]

\* one row of sample indices and one row of weights per target point, from
\* the triangulation dtri built once for the table
model_weights(dtri, pars, target_points) ==
    Rows([k \in 1..Len(target_points) |-> PointWeights(dtri, pars, target_points[k])])

-----------------------------------------------------------------------------
(* Python values *)

\* a float (scalar = TRUE, one element) or a 1-d ndarray
Scalar(x) == [scalar |-> TRUE, v |-> <<x>>]
Array(s) == [scalar |-> FALSE, v |-> s]
NoValue == [scalar |-> FALSE, v |-> <<>>]

\* np.atleast_1d
atleast_1d(x) == x.v

\* numpy broadcasting of two operands that are floats or 1-d arrays
BroadcastOK(x, y) ==
    \/ x.scalar \/ y.scalar
    \/ Len(x.v) = Len(y.v) \/ Len(x.v) = 1 \/ Len(y.v) = 1

BroadcastLen(x, y) == IF Len(x.v) >= Len(y.v) THEN Len(x.v) ELSE Len(y.v)

Elem(x, k) == IF Len(x.v) = 1 THEN x.v[1] ELSE x.v[k]

\* x * y, elementwise with broadcasting
Times(x, y) ==
    [scalar |-> x.scalar /\ y.scalar,
     v      |-> [k \in 1..BroadcastLen(x, y) |-> FMul(Elem(x, k), Elem(y, k))]]

\* 10**x
TenTo(x) == [scalar |-> x.scalar, v |-> [k \in 1..Len(x.v) |-> Pow10(x.v[k])]]

\* the objects a call works on: the grid's two tables, the caller's
\* arguments, and the arrays the call creates
NoMatrix == <<>>

ClearResults(h) ==
    [h EXCEPT !.lines = NoMatrix, !.FIR = NoValue, !.Gstar = NoValue, !.lnprob = <<>>]

Raise(h, e) == [err |-> e, h |-> ClearResults(h), ref |-> "lines"]

-----------------------------------------------------------------------------
(* PDRGrid.lines *)

\* a slip: lines() hands out the stored table itself
IntensitiesView == "intensity"

\* the array object that lines() returns: a new array, made by the product
\* and the sum of line 138
IntensitiesRef == "lines"

\* a slip: the weights are applied along the wrong axis, so that vertex k
\* takes the weight of vertex 4 - k
WeightedSumReversed(intensity, inds, weights) ==
    [q \in 1..Len(inds) |->
        [l \in 1..NLines |->
            FSum([k \in 1..3 |-> FMul(weights[q][4 - k], intensity[inds[q][k]][l])])]]

\* intensities = ((weights * (self.intensity[inds].transpose(2,0,1))).sum(axis=2)).T
WeightedSum(intensity, inds, weights) ==
    [q \in 1..Len(inds) |->
        [l \in 1..NLines |->
            FSum([k \in 1..3 |-> FMul(weights[q][k], intensity[inds[q][k]][l])])]]

\* target_points = np.vstack([np.atleast_1d(n),np.atleast_1d(Go)]).T
vstackT(n, Go) == [k \in 1..Len(n) |-> <<n[k], Go[k]>>]

\* the call returns the array of the weighted sums
LinesOf(h, mw) ==
    [err |-> "",
     h   |-> [h EXCEPT !.lines = WeightedSum(h.intensity, mw.inds, mw.weights)],
     ref |-> IntensitiesRef]

PDRGrid_lines(h, n, Go) ==
    IF Len(atleast_1d(n)) # Len(atleast_1d(Go))
    THEN Raise(h, "ValueError")
    ELSE LinesOf(h, model_weights(h.dtri, h.pars, vstackT(atleast_1d(n), atleast_1d(Go))))

-----------------------------------------------------------------------------
(* PDRModel.model *)

\* a slip: every row is scaled by the first filling factor
ScaleByFirst(h, ref, fill) ==
    [h EXCEPT ![ref] = [q \in 1..Len(h[ref]) |->
                          [l \in 1..NLines |-> FMul(h[ref][q][l], fill.v[1])]]]

\* lines *= fill[:,None] / (2 * np.pi) * 1e-3, in place on the array at ref
ScaleInPlace(h, ref, fill) ==
    [h EXCEPT ![ref] = [q \in 1..Len(h[ref]) |->
                          [l \in 1..NLines |-> FMul(h[ref][q][l], Elem(fill, q))]]]

\* a slip: the attribute of the instance is used whatever is passed
GridSourceAmbient(gridarg) == "self"

\* if grid is None: grid = self.grid
GridSource(gridarg) == IF gridarg = "None" THEN "self" ELSE "arg"

\* FIR = 10**Go * fill * GtoI
FIRof(Go, fill) == Times(TenTo(Go), fill)

\* Gstar = 10**Go * np.sqrt(2)
Gstarof(Go) == TenTo(Go)

\* lines 66-67, r what grid.lines returned
ModelOf(h, r) ==
    IF r.err # "" THEN r
    ELSE IF h.fill.scalar THEN Raise(r.h, "TypeError")
    ELSE IF Len(h.fill.v) \notin {1, Len(r.h[r.ref])}
    THEN Raise(r.h, "ValueError")
    ELSE [err |-> "",
          h   |-> [ScaleInPlace(r.h, r.ref, h.fill) EXCEPT
                      !.FIR = FIRof(h.Go, h.fill),
                      !.Gstar = Gstarof(h.Go)],
          ref |-> r.ref]

PDRModel_model(h, gridarg, attr) ==
    IF GridSource(gridarg) = "self" /\ attr = "unset"
    THEN Raise(h, "AttributeError")
    ELSE IF ~BroadcastOK(h.Go, h.fill)
    THEN Raise(h, "ValueError")
    ELSE ModelOf(h, PDRGrid_lines(h, h.n, h.Go))

-----------------------------------------------------------------------------
(* PDRModel.lnprob *)

ObsFields ==
    {"line_intensity", "line_unc", "line_mask", "FIR", "FIR_unc", "Gstar", "Gstar_unc"}

\* a boolean as a factor of a float product
BoolFloat(b) == IF b THEN F(1) ELSE F(0)

\* (lines - obs['line_intensity'])**2 / obs['line_unc']**2 * obs['line_mask'],
\* for one line of one model
LineTerm(predicted, observed, unc, mask) ==
    FMul(FDiv(FSq(FSub(predicted, observed)), FSq(unc)), BoolFloat(mask))

\* a slip: .sum() without the axis, the total over all models and lines
LineSumAll(lines, obs) ==
    [q \in 1..Len(lines) |->
        FNegHalf(FSum([k \in 1..(Len(lines) * NLines) |->
            LineTerm(lines[((k - 1) \div NLines) + 1][((k - 1) % NLines) + 1],
                     obs.line_intensity[((k - 1) % NLines) + 1],
                     obs.line_unc[((k - 1) % NLines) + 1],
                     obs.line_mask[((k - 1) % NLines) + 1])]))]

\* -0.5 * (...).sum(axis=-1)
LineSum(lines, obs) ==
    [q \in 1..Len(lines) |->
        FNegHalf(FSum([l \in 1..NLines |->
            LineTerm(lines[q][l], obs.line_intensity[l], obs.line_unc[l],
                     obs.line_mask[l])]))]

\* -0.5 * ((x - observed)**2 / unc**2)
GaussTerm(x, observed, unc) == FNegHalf(FDiv(FSq(FSub(x, observed)), FSq(unc)))

\* lnprob += term, in place, term a float or an array
AddInPlace(lnprob, x, observed, unc) ==
    [q \in 1..Len(lnprob) |-> FAdd(lnprob[q], GaussTerm(Elem(x, q), observed, unc))]

\* a slip: the scalar observables are read with a default
KeysReadLines == {"line_intensity", "line_unc", "line_mask"}

\* obs['line_intensity'], obs['line_unc'], obs['line_mask'], obs['FIR'],
\* obs['FIR_unc'], obs['Gstar'], obs['Gstar_unc']: the keys lnprob reads
KeysRead == ObsFields

\* lines 96-100, m what model() returned
LnprobOf(h, m) ==
    IF m.err # "" THEN m
    ELSE IF h.obs.isNone THEN Raise(m.h, "TypeError")
    ELSE IF ~(KeysRead \subseteq h.obs.has) THEN Raise(m.h, "KeyError")
    ELSE [err |-> "",
          h   |-> [m.h EXCEPT !.lnprob =
                      AddInPlace(
                          AddInPlace(LineSum(m.h[m.ref], h.obs),
                                     m.h.FIR, h.obs.FIR, h.obs.FIR_unc),
                          m.h.Gstar, h.obs.Gstar, h.obs.Gstar_unc)],
          ref |-> m.ref]

PDRModel_lnprob(h, gridarg, attr) ==
    LnprobOf(h, PDRModel_model(h, gridarg, attr))

-----------------------------------------------------------------------------
(* The inputs of the calls *)

\* query densities: the lattice coordinates and the points half way between
NVals == [k \in 1..(2 * MaxN + 1) |-> Norm(k - 1, 2)]
\* query radiation fields
GoVals == <<F(0), F(1)>>
\* filling factors
FillVals == <<F(0), <<1, 2>>>>

\* the len values of vals that follow position s, cyclically
Window(vals, s, len) == [i \in 1..len |-> vals[((s + i - 2) % Len(vals)) + 1]]

ArraysOver(vals, len) == {Array(Window(vals, s, len)) : s \in 1..Len(vals)}

ArgsOver(vals) ==
    {Scalar(vals[s]) : s \in 1..Len(vals)}
        \cup UNION {ArraysOver(vals, len) : len \in 1..MaxQueries}

\* theta = (n, Go, fill) holding N model instances
ThetasOf(N) ==
    ArraysOver(NVals, N) \X ArraysOver(GoVals, N) \X ArraysOver(FillVals, N)

Thetas == UNION {ThetasOf(N) : N \in 1..MaxQueries}

NoObs ==
    [isNone |-> TRUE, has |-> {},
     line_intensity |-> <<>>, line_unc |-> <<>>, line_mask |-> <<>>,
     FIR |-> F(0), FIR_unc |-> F(0), Gstar |-> F(0), Gstar_unc |-> F(0)]

\* an observation whose used lines are M and whose lines in Z have a zero
\* uncertainty
Observation(M, Z) ==
    [isNone |-> FALSE, has |-> ObsFields,
     line_intensity |-> [l \in 1..NLines |-> F(l)],
     line_unc       |-> [l \in 1..NLines |-> IF l \in Z THEN F(0) ELSE F(2)],
     line_mask      |-> [l \in 1..NLines |-> l \in M],
     FIR |-> F(10), FIR_unc |-> F(2), Gstar |-> F(1), Gstar_unc |-> F(3)]

\* an observation mapping without the key f
Without(obs, f) ==
    [[obs EXCEPT !.has = obs.has \ {f}] EXCEPT
        !.line_intensity = IF f = "line_intensity" THEN <<>> ELSE @,
        !.line_unc       = IF f = "line_unc" THEN <<>> ELSE @,
        !.line_mask      = IF f = "line_mask" THEN <<>> ELSE @,
        !.FIR            = IF f = "FIR" THEN F(0) ELSE @,
        !.FIR_unc        = IF f = "FIR_unc" THEN F(0) ELSE @,
        !.Gstar          = IF f = "Gstar" THEN F(0) ELSE @,
        !.Gstar_unc      = IF f = "Gstar_unc" THEN F(0) ELSE @]

Masks == {{}, {1, 3}, 1..NLines}

CompleteObs == {Observation(M, Z) : M \in Masks, Z \in {{}, {2}}}

IncompleteObs ==
    {Without(Observation(1..NLines, {}), f) : f \in ObsFields} \cup {NoObs}

\* the (theta, obs) pairs lnprob is called with: every theta against every
\* complete observation, and the single-model thetas against the observations
\* that lack a field
LnprobInputs ==
    (Thetas \X CompleteObs) \cup (ThetasOf(1) \X IncompleteObs)

GridArgs == {"None", "grid"}

-----------------------------------------------------------------------------
(* State *)

NoCall ==
    [op |-> "none", status |-> "idle", n |-> NoValue, Go |-> NoValue,
     fill |-> NoValue, gridarg |-> "None", obs |-> NoObs, gridsrc |-> "none",
     ref |-> "lines"]

RkIdle == [pc |-> "idle", file |-> <<>>, as_struct |-> FALSE, pos |-> 0,
           bound |-> FALSE, skiprows |-> 0, open |-> FALSE, error |-> "",
           data |-> <<>>]

NewHeap(g) ==
    [pars |-> g.pars, intensity |-> g.intensity, dtri |-> Simplices(g.pars),
     n |-> NoValue, Go |-> NoValue, fill |-> NoValue, obs |-> NoObs,
     lines |-> NoMatrix, FIR |-> NoValue, Gstar |-> NoValue, lnprob |-> <<>>]

\* grid = load_kauffman(); pdr = PDRModel()
Init ==
    /\ \E S \in PointSets, a \in Coefs : heap = NewHeap(load_kauffman(S, a))
    /\ selfattr = "unset"
    /\ call = NoCall
    /\ rk = RkIdle

Status(r) == IF r.err = "" THEN "ok" ELSE r.err

\* the caller passes its arrays
Bind(h, n, Go, fill, obs) == [h EXCEPT !.n = n, !.Go = Go, !.fill = fill, !.obs = obs]

\* pdr.grid = grid, the attribute the docstrings of model and lnprob refer to
SetGridAttr ==
    /\ call.status = "idle"
    /\ selfattr = "unset"
    /\ selfattr' = "grid"
    /\ UNCHANGED <<heap, call, rk>>

CallLines ==
    /\ call.status = "idle"
    /\ \E n \in ArgsOver(NVals), Go \in ArgsOver(GoVals) :
          \E r \in {PDRGrid_lines(Bind(heap, n, Go, NoValue, NoObs), n, Go)} :
              /\ heap' = r.h
              /\ call' = [NoCall EXCEPT !.op = "lines", !.status = Status(r),
                             !.n = n, !.Go = Go, !.gridarg = "grid",
                             !.gridsrc = "arg", !.ref = r.ref]
    /\ UNCHANGED <<selfattr, rk>>

CallModel ==
    /\ call.status = "idle"
    /\ \E n \in ArgsOver(NVals), Go \in ArgsOver(GoVals),
          fill \in ArgsOver(FillVals), gridarg \in GridArgs :
          \E r \in {PDRModel_model(Bind(heap, n, Go, fill, NoObs), gridarg, selfattr)} :
              /\ heap' = r.h
              /\ call' = [NoCall EXCEPT !.op = "model", !.status = Status(r),
                             !.n = n, !.Go = Go, !.fill = fill, !.gridarg = gridarg,
                             !.gridsrc = GridSource(gridarg), !.ref = r.ref]
    /\ UNCHANGED <<selfattr, rk>>

CallLnprob ==
    /\ call.status = "idle"
    /\ \E in \in LnprobInputs, gridarg \in GridArgs :
          \E r \in {PDRModel_lnprob(Bind(heap, in[1][1], in[1][2], in[1][3], in[2]),
                                    gridarg, selfattr)} :
              /\ heap' = r.h
              /\ call' = [NoCall EXCEPT !.op = "lnprob", !.status = Status(r),
                             !.n = in[1][1], !.Go = in[1][2], !.fill = in[1][3],
                             !.gridarg = gridarg, !.obs = in[2],
                             !.gridsrc = GridSource(gridarg), !.ref = r.ref]
    /\ UNCHANGED <<selfattr, rk>>

\* the caller is done with the arguments and the results of the call
Return ==
    /\ call.status # "idle"
    /\ heap' = ClearResults(Bind(heap, NoValue, NoValue, NoValue, NoObs))
    /\ call' = NoCall
    /\ UNCHANGED <<selfattr, rk>>

\* any sequence of calls of lines, model and lnprob, on any loaded table
Next == SetGridAttr \/ CallLines \/ CallModel \/ CallLnprob \/ Return

Spec == Init /\ [][Next]_vars

-----------------------------------------------------------------------------
(* read_kauffman *)

\* a file is the sequence of the field counts of its lines; field j of line i
\* holds the number 10 * i + j
FieldCounts == {0, 2, 5, 6}

RECURSIVE SeqsOver(_, _)
SeqsOver(S, len) ==
    IF len = 0 THEN {<<>>}
    ELSE {Append(f, x) : f \in SeqsOver(S, len - 1), x \in S}

Files == UNION {SeqsOver(FieldCounts, len) : len \in 0..MaxFileLen}

Field(i, j) == 10 * i + j

\* np.loadtxt(filename, usecols = (1,3,4), skiprows = k): the second, fourth
\* and fifth field of every line after the first k, blank lines left out
loadtxt(file, k) ==
    LET rows == {i \in (k + 1)..Len(file) : file[i] > 0}
    IN  IF \E i \in rows : file[i] < 5
        THEN [err |-> "ValueError", rows |-> <<>>]
        ELSE [err |-> "",
              rows |-> [r \in 1..Cardinality(rows) |->
                          LET i == CHOOSE x \in rows :
                                     Cardinality({y \in rows : y < x}) = r - 1
                          IN  <<Field(i, 2), Field(i, 4), Field(i, 5)>>]]

\* tmp = open(filename, 'rb')
RkCall ==
    /\ rk.pc = "idle"
    /\ \E file \in Files, as_struct \in BOOLEAN :
          rk' = [RkIdle EXCEPT !.pc = "while", !.file = file,
                               !.as_struct = as_struct, !.open = TRUE]
    /\ UNCHANGED <<heap, selfattr, call>>

\* while len(tmp.readline().split()) < 5: readline gives '' at the end of
\* the file
RkWhile ==
    /\ rk.pc = "while"
    /\ LET atEnd == rk.pos >= Len(rk.file)
           nf == IF atEnd THEN 0 ELSE rk.file[rk.pos + 1]
       IN  rk' = [rk EXCEPT !.pos = IF atEnd THEN @ ELSE @ + 1,
                            !.pc = IF nf < 5 THEN "increment" ELSE "close"]
    /\ UNCHANGED <<heap, selfattr, call>>

\* skiprows += 1: skiprows is a local name that no statement has bound
RkIncrement ==
    /\ rk.pc = "increment"
    /\ rk' = IF rk.bound
             THEN [rk EXCEPT !.skiprows = @ + 1, !.pc = "while"]
             ELSE [rk EXCEPT !.error = "UnboundLocalError", !.pc = "raised"]
    /\ UNCHANGED <<heap, selfattr, call>>

\* tmp.close()
RkClose ==
    /\ rk.pc = "close"
    /\ rk' = [rk EXCEPT !.open = FALSE, !.pc = "loadtxt"]
    /\ UNCHANGED <<heap, selfattr, call>>

\* np.loadtxt(filename, usecols = (1,3,4), skiprows = skiprows); without
\* as_struct the rows of the result are unpacked into n, Go, I
RkLoadtxt ==
    /\ rk.pc = "loadtxt"
    /\ rk' = IF ~rk.bound
             THEN [rk EXCEPT !.error = "UnboundLocalError", !.pc = "raised"]
             ELSE LET d == loadtxt(rk.file, rk.skiprows)
                  IN  IF d.err # ""
                      THEN [rk EXCEPT !.error = d.err, !.pc = "raised"]
                      ELSE IF ~rk.as_struct /\ Len(d.rows) \notin {1, 3}
                      THEN [rk EXCEPT !.error = "ValueError", !.pc = "raised"]
                      ELSE [rk EXCEPT !.data = d.rows, !.pc = "returned"]
    /\ UNCHANGED <<heap, selfattr, call>>

NextRead == RkCall \/ RkWhile \/ RkIncrement \/ RkClose \/ RkLoadtxt

SpecRead == Init /\ [][NextRead]_vars

-----------------------------------------------------------------------------
(* Properties *)

Returned(op) == call.op = op /\ call.status = "ok"

\* the query point q of the call is the sample i of the table
AtSample(q, i) ==
    /\ call.n.v[q] = F(heap.pars[i][1])
    /\ call.Go.v[q] = F(heap.pars[i][2])

ZeroRow == [l \in 1..NLines |-> F(0)]

\* C1: interpolation is exact at the nodes: the row that lines() returns for
\* a query point that is a sample of the table is that sample's stored
\* intensity vector.
C1_ExactAtNodes ==
    Returned("lines") =>
        \A q \in 1..Len(heap[call.ref]) : \A i \in 1..Len(heap.pars) :
            AtSample(q, i) => heap[call.ref][q] = heap.intensity[i]

C1_Witness ==
    /\ Returned("lines")
    /\ Len(heap[call.ref]) = 1
    /\ \E i \in 1..Len(heap.pars) :
          /\ AtSample(1, i)
          /\ heap.intensity[i] # ZeroRow
          /\ \E j \in 1..Len(heap.pars) : heap.intensity[j] # heap.intensity[i]

\* C2: a model instance with fill = 0 has FIR = 0 and every line intensity 0,
\* whatever n, Go and the table are.
C2_ZeroFill ==
    Returned("model") =>
        \A q \in 1..Len(heap[call.ref]) :
            Elem(call.fill, q) = F(0) =>
                /\ heap.FIR.v[q] = F(0)
                /\ heap[call.ref][q] = ZeroRow

C2_Witness ==
    /\ Returned("model")
    /\ Len(heap[call.ref]) = 2
    /\ \E q, r \in 1..2 :
          /\ Elem(call.fill, q) = F(0)
          /\ heap.Gstar.v[q] # F(0)
          /\ heap.FIR.v[r] # F(0)
          /\ \A l \in 1..NLines : heap[call.ref][r][l] # F(0)

\* C3 (as claimed): a line whose mask entry is false contributes exactly zero,
\* and with every line masked out the log-likelihood is the FIR term plus the
\* Gstar term.
C3_MaskedLinesVanish ==
    Returned("lnprob") =>
        /\ \A q \in 1..Len(heap.lnprob) : \A l \in 1..NLines :
              ~call.obs.line_mask[l] =>
                  LineTerm(heap[call.ref][q][l], call.obs.line_intensity[l],
                           call.obs.line_unc[l], FALSE) = F(0)
        /\ (\A l \in 1..NLines : ~call.obs.line_mask[l]) =>
              \A q \in 1..Len(heap.lnprob) :
                  heap.lnprob[q] =
                      FAdd(GaussTerm(heap.FIR.v[q], call.obs.FIR, call.obs.FIR_unc),
                           GaussTerm(Elem(heap.Gstar, q), call.obs.Gstar,
                                     call.obs.Gstar_unc))

\* the call of lnprob with the i-th model instance of the call alone
Alone(i) ==
    PDRModel_lnprob(
        Bind(ClearResults(heap), Array(<<call.n.v[i]>>), Array(<<call.Go.v[i]>>),
             Array(<<call.fill.v[i]>>), call.obs),
        call.gridarg, selfattr)

\* the call of model with the theta of the call
ModelOfTheta ==
    PDRModel_model(Bind(ClearResults(heap), call.n, call.Go, call.fill, NoObs),
                   call.gridarg, selfattr)

\* C4: lnprob on N model instances returns N values, the i-th the value of
\* the i-th instance alone, and the blob is what model() returns for theta.
C4_OnePerInstance ==
    Returned("lnprob") =>
        /\ Len(heap.lnprob) = Len(call.n.v)
        /\ \A i \in 1..Len(call.n.v) : \E alone \in {Alone(i)} :
              /\ alone.err = ""
              /\ heap.lnprob[i] = alone.h.lnprob[1]
        /\ \E m \in {ModelOfTheta} :
              /\ heap[call.ref] = m.h[m.ref]
              /\ heap.FIR = m.h.FIR
              /\ heap.Gstar = m.h.Gstar

C4_Witness ==
    /\ Returned("lnprob")
    /\ Len(heap.lnprob) = 2
    /\ heap.lnprob[1] # heap.lnprob[2]
    /\ IsFinite(heap.lnprob[1]) /\ IsFinite(heap.lnprob[2])
    /\ \E l \in 1..NLines : call.obs.line_mask[l]

AllScalars ==
    /\ call.n.scalar /\ call.Go.scalar
    /\ call.op = "model" => call.fill.scalar

\* C5 (as claimed): lines and model called with scalars complete without
\* error and return a line matrix of shape [1, n_lines].
C5_ScalarsAccepted ==
    (call.op \in {"lines", "model"} /\ AllScalars
        /\ ~(call.gridsrc = "self" /\ selfattr = "unset")) =>
        /\ call.status = "ok"
        /\ Len(heap[call.ref]) = 1
        /\ Len(heap[call.ref][1]) = NLines

Lengths == {Len(call.n.v), Len(call.Go.v), Len(call.fill.v)}

\* C6 (as claimed): model called with arrays whose lengths do not all match
\* fails and returns no result.
C6_MismatchFails ==
    (call.op = "model" /\ ~call.n.scalar /\ ~call.Go.scalar /\ ~call.fill.scalar
        /\ Cardinality(Lengths) > 1) =>
        call.status # "ok"

Incomplete(obs) == obs.isNone \/ ~(ObsFields \subseteq obs.has)

\* C7 (as claimed): lnprob fails with MissingObservationFieldError when the
\* observation lacks a field or is None.
C7_MissingFieldError ==
    (call.op = "lnprob" /\ Incomplete(call.obs)
        /\ ~(call.gridsrc = "self" /\ selfattr = "unset")) =>
        call.status = "MissingObservationFieldError"

\* C7 (amended): when the observation lacks a field or is None, lnprob raises
\* KeyError for a mapping without the key and TypeError for None, unless
\* model() has raised before, and no log-likelihood is returned.
C7_MissingFieldRaises ==
    (call.op = "lnprob" /\ Incomplete(call.obs)) =>
        /\ call.status =
              IF call.gridsrc = "self" /\ selfattr = "unset" THEN "AttributeError"
              ELSE IF call.obs.isNone THEN "TypeError"
              ELSE "KeyError"
        /\ heap.lnprob = <<>>

C7_Witness ==
    /\ call.op = "lnprob"
    /\ ~call.obs.isNone
    /\ call.obs.has = ObsFields \ {"Gstar_unc"}
    /\ call.status = "KeyError"

\* C8 (as claimed): a call of model or lnprob that returns has used the grid
\* passed as its argument, never the grid attribute of the instance.
C8_GridIsArgument ==
    (call.op \in {"model", "lnprob"} /\ call.status = "ok") => call.gridsrc = "arg"

\* C8 (amended): the grid used is the grid argument whenever one is passed;
\* only a call with grid = None reads the grid attribute of the instance, and
\* it raises AttributeError when the attribute was never set.
C8_GridArgumentOrAttribute ==
    call.op \in {"model", "lnprob"} =>
        /\ call.gridarg # "None" => (call.gridsrc = "arg" /\ call.status # "AttributeError")
        /\ call.gridarg = "None" =>
              /\ call.gridsrc = "self"
              /\ selfattr = "unset" => call.status = "AttributeError"

C8_Witness ==
    /\ call.op = "lnprob"
    /\ call.status = "ok"
    /\ call.gridarg = "None"
    /\ selfattr = "grid"

\* C9: no call changes the grid's parameter table or its stored intensities,
\* and after a call the caller's n, Go and fill and the observation are what
\* was passed.
C9_CallsArePure ==
    /\ [][heap'.pars = heap.pars /\ heap'.intensity = heap.intensity]_vars
    /\ [](call.status # "idle" =>
             /\ heap.n = call.n /\ heap.Go = call.Go /\ heap.fill = call.fill
             /\ heap.obs = call.obs)

C9_Witness ==
    /\ Returned("lnprob")
    /\ \E q \in 1..Len(heap.lnprob) :
          /\ Elem(call.fill, q) = <<1, 2>>
          /\ heap[call.ref][q] # ZeroRow
          /\ heap.lnprob[q] # F(0)

\* what read_kauffman is to return for a file: columns 1, 3 and 4 of the
\* lines after the leading lines of fewer than 5 fields
Expected(file) ==
    LET h == IF \A i \in 1..Len(file) : file[i] < 5 THEN Len(file)
             ELSE (CHOOSE i \in 1..Len(file) :
                      file[i] >= 5 /\ \A j \in 1..(i - 1) : file[j] < 5) - 1
    IN  [i \in 1..(Len(file) - h) |->
            <<Field(h + i, 2), Field(h + i, 4), Field(h + i, 5)>>]

\* header lines followed by data rows, one at least
WellFormed(file) ==
    /\ \E i \in 1..Len(file) : file[i] >= 5
    /\ \A i \in 1..Len(file) : file[i] >= 5 => \A j \in i..Len(file) : file[j] >= 5

\* C10 (as claimed): on a file of header lines followed by data rows,
\* read_kauffman ends with the data of the rows after the header, not with an
\* error.
C10_ReadsTable ==
    (WellFormed(rk.file) /\ rk.pc \in {"raised", "returned"}) =>
        /\ rk.pc = "returned"
        /\ rk.data = Expected(rk.file)

====
